---- MODULE Spec2Model ----
(***************************************************************************)
(* Model of src/src/platform.ts: SmartThingsPlatform, the homebridge       *)
(* platform that discovers SmartThings devices and registers televisions.  *)
(*                                                                         *)
(* An optional JavaScript value (undefined or a value) is a sequence of    *)
(* length 0 or 1: None is undefined, Some(x) is the value x.               *)
(***************************************************************************)
EXTENDS Naturals, Sequences, FiniteSets

VARIABLES
    config,        \* PlatformConfig: [token, deviceMappings], fixed at construction
    listening,     \* the 'didFinishLaunching' handler was registered by the constructor
    accessories,   \* this.accessories: the working set, in push order
    restoredIds,   \* host side: UUIDs of the cached accessories it has delivered
    restoredInFlight, \* host side: those of them delivered while a list call was pending
    account,       \* vendor side: the devices of the account, as devices.list()
                   \* returns them; they do not change while the process runs
    signals,       \* host side: number of didFinishLaunching events emitted
    clients,       \* number of SmartThingsClient instances constructed
    listCalls,     \* number of client.devices.list() calls issued
    pending,       \* clients whose devices.list() promise is not settled yet
    rejected,      \* vendor side: clients whose devices.list() promise was rejected
    created,       \* per deviceId: accessories constructed and published so far
    handled        \* None, or Some(record of the list response handled last)

vars == <<config, listening, accessories, restoredIds, restoredInFlight, account, signals,
          clients, listCalls, pending, rejected, created, handled>>

-----------------------------------------------------------------------------
(* Bounds of the model *)

MaxList == 2        \* longest device list the vendor API returns
MaxSignals == 2     \* startup-complete events the host emits at most

-----------------------------------------------------------------------------
(* Values *)

None == <<>>
Some(x) == <<x>>

DeviceIds == {"d1", "d2"}

\* api.hap.Categories.TELEVISION
TELEVISION == 31

\* A Device of the vendor API: deviceId, name?, ocf?.ocfDeviceType, components?
Dev(id, name, type, comps) ==
    [deviceId |-> id, name |-> name, ocfDeviceType |-> type, components |-> comps]

\* The devices the model draws list responses from: d1 in every shape the
\* code tells apart; d2 as a television with a component and as the switch of
\* the spec's scenario.
TvMain == <<None, Some("oic.d.tv"), Some(<<"main">>)>>
TvNamed == <<Some("TV"), Some("oic.d.tv"), Some(<<"main", "audio">>)>>
TvEmptyComponents == <<None, Some("oic.d.tv"), Some(<<>>)>>
TvNoComponents == <<None, Some("oic.d.tv"), None>>
Switch == <<None, Some("oic.d.switch"), None>>
NoOcf == <<Some("Hub"), None, Some(<<"main">>)>>

DeviceShapes(id) ==
    IF id = "d1"
    THEN {TvMain, TvNamed, TvEmptyComponents, TvNoComponents, Switch, NoOcf}
    ELSE {TvMain, Switch}

Devices == UNION { { Dev(id, s[1], s[2], s[3]) : s \in DeviceShapes(id) } : id \in DeviceIds }

BoundedSeq(S, n) == UNION { [1..k -> S] : k \in 0..n }

DeviceLists == BoundedSeq(Devices, MaxList)

\* DeviceMapping (class DeviceMapping)
DeviceMapping(id, mac, ip) == [deviceId |-> id, macAddress |-> mac, ipAddress |-> ip]

\* config.deviceMappings: not configured, empty, or a list of entries
MappingConfigs ==
    { None,
      Some(<<>>),
      Some(<<DeviceMapping("d1", "AA:BB", "10.0.0.5")>>),
      Some(<<DeviceMapping("d9", "CC:DD", "10.0.0.6"),
             DeviceMapping("d2", "EE:FF", "10.0.0.7"),
             DeviceMapping("d2", "AA:00", "10.0.0.8")>>) }

\* config.token: not configured, the empty string, or a token
TokenConfigs == { None, Some(""), Some("t1") }

\* Variant of Falsy that takes the empty string for a token
Falsy_emptyIsToken(x) == x = None

\* JavaScript !x for an optional string
Falsy(x) == x = None \/ x[1] = ""

\* device.name ?? device.deviceId
DisplayName(device) == IF device.name = None THEN device.deviceId ELSE device.name[1]

\* A PlatformAccessory. inst tells object instances apart: <<0, n>> is the
\* n-th accessory delivered from the host's cache, <<c, i>> the one constructed
\* for element i of the list response of client c.
Accessory(device, c, n) ==
    [UUID |-> device.deviceId, displayName |-> DisplayName(device),
     category |-> TELEVISION, context |-> device, inst |-> <<c, n>>]

\* Accessories the host may hold in its cache: saved by an earlier run, so
\* each snapshot is a television with a main component.
CachedSnapshots == { Dev(id, TvMain[1], TvMain[2], TvMain[3]) : id \in DeviceIds }

-----------------------------------------------------------------------------
(* Pure helpers of registerDevice / registerTvDevice *)

\* Array.prototype.find returns the first element satisfying the test: the
\* one at the least index among those that do
First(indices) == CHOOSE i \in indices : \A j \in indices : i <= j

\* this.accessories.find(a => a.UUID === device.deviceId)
FindAccessory(accs, deviceId) ==
    LET hits == { i \in 1..Len(accs) : accs[i].UUID = deviceId }
    IN IF hits = {} THEN None ELSE Some(accs[First(hits)])

\* deviceMappings.find(mapping => mapping.deviceId === device.deviceId)
FindMapping(mappings, deviceId) ==
    LET hits == { i \in 1..Len(mappings) : mappings[i].deviceId = deviceId }
    IN IF hits = {} THEN None ELSE Some(mappings[First(hits)])

\* device.components?.at(0)
At0(components) ==
    IF components = None \/ components[1] = <<>> THEN None ELSE Some(components[1][1])

\* deviceMapping?.macAddress, deviceMapping?.ipAddress
MacOf(deviceMapping) == IF deviceMapping = None THEN None ELSE Some(deviceMapping[1].macAddress)
IpOf(deviceMapping) == IF deviceMapping = None THEN None ELSE Some(deviceMapping[1].ipAddress)

\* new TvAccessory(log, capabilityLogging, this, accessory, device, component,
\* client, macAddress, ipAddress): the arguments that vary in this model
TvAccessory(accessory, device, component, client, macAddress, ipAddress) ==
    [accessory |-> accessory, device |-> device, component |-> component,
     client |-> client, macAddress |-> macAddress, ipAddress |-> ipAddress]

\* What one call of registerDevice did: its outcome, the accessory it
\* constructed (if any), the accessories it handed to publishExternalAccessories,
\* the adapter it constructed (if any) and the working set it left.
Effect(outcome, newAcc, published, adapter, accs) ==
    [outcome |-> outcome, created |-> newAcc, published |-> published,
     adapter |-> adapter, accessories |-> accs]

\* Variant of RegisterTvDevice without the early return on a missing component
RegisterTvDevice_noComponentCheck(st, client, device, accessory, deviceMapping) ==
    LET component == At0(device.components)
        acc == IF accessory = None
               THEN Accessory(device, client, Len(st.attempts) + 1)
               ELSE accessory[1]
    IN Effect("registered",
              IF accessory = None THEN Some(acc) ELSE None,
              IF accessory = None THEN <<acc>> ELSE <<>>,
              Some(TvAccessory(acc, device,
                               IF component = None THEN "undefined" ELSE component[1],
                               client,
                               MacOf(deviceMapping), IpOf(deviceMapping))),
              st.accessories)

\* Variant of RegisterTvDevice that refreshes the stored device snapshot of a
\* matched cached accessory from the freshly fetched device
RegisterTvDevice_refreshContext(st, client, device, accessory, deviceMapping) ==
    LET component == At0(device.components) IN
    IF component = None
    THEN Effect("noComponent", None, <<>>, None, st.accessories)
    ELSE LET acc == IF accessory = None
                    THEN Accessory(device, client, Len(st.attempts) + 1)
                    ELSE [accessory[1] EXCEPT !.context = device]
             accs == IF accessory = None THEN st.accessories
                     ELSE [i \in 1..Len(st.accessories) |->
                             IF st.accessories[i] = accessory[1] THEN acc
                             ELSE st.accessories[i]]
         IN Effect("registered",
                   IF accessory = None THEN Some(acc) ELSE None,
                   IF accessory = None THEN <<acc>> ELSE <<>>,
                   Some(TvAccessory(acc, device, component[1], client,
                                    MacOf(deviceMapping), IpOf(deviceMapping))),
                   accs)

\* registerTvDevice(client, device, accessory, deviceMapping)
RegisterTvDevice(st, client, device, accessory, deviceMapping) ==
    LET component == At0(device.components) IN
    IF component = None
    THEN Effect("noComponent", None, <<>>, None, st.accessories)
    ELSE LET acc == IF accessory = None
                    THEN Accessory(device, client, Len(st.attempts) + 1)
                    ELSE accessory[1]
         IN Effect("registered",
                   IF accessory = None THEN Some(acc) ELSE None,
                   IF accessory = None THEN <<acc>> ELSE <<>>,
                   Some(TvAccessory(acc, device, component[1], client,
                                    MacOf(deviceMapping), IpOf(deviceMapping))),
                   st.accessories)

\* The TypeError of calling .find on an undefined deviceMappings
Threw(st) == Effect("threw", None, <<>>, None, st.accessories)

\* The default branch of the switch: log and skip
Ignored(st) == Effect("ignored", None, <<>>, None, st.accessories)

\* The state after one registerDevice call, with the call appended to the
\* record of the pass.
Applied(st, device, existing, mapping, eff) ==
    [accessories  |-> eff.accessories,
     created      |-> IF eff.published = <<>> THEN st.created
                      ELSE [st.created EXCEPT ![eff.published[1].UUID] = @ + 1],
     thrown       |-> eff.outcome = "threw",
     attempts     |-> Append(st.attempts,
                             [device |-> device, existing |-> existing,
                              mapping |-> mapping, outcome |-> eff.outcome,
                              created |-> eff.created, published |-> eff.published,
                              adapter |-> eff.adapter,
                              before |-> st.accessories, after |-> eff.accessories])]

\* Variant of RegisterDevice that registers every device as a television
RegisterDevice_anyTypeIsTv(st, client, device, deviceMappings) ==
    LET existingAccessory == FindAccessory(st.accessories, device.deviceId) IN
    IF deviceMappings = None
    THEN Applied(st, device, existingAccessory, None, Threw(st))
    ELSE LET mapping == FindMapping(deviceMappings[1], device.deviceId) IN
         Applied(st, device, existingAccessory, mapping,
                 RegisterTvDevice(st, client, device, existingAccessory, mapping))

\* registerDevice(client, device, deviceMappings)
RegisterDevice(st, client, device, deviceMappings) ==
    LET existingAccessory == FindAccessory(st.accessories, device.deviceId) IN
    IF device.ocfDeviceType = Some("oic.d.tv")
    THEN IF deviceMappings = None
         THEN Applied(st, device, existingAccessory, None, Threw(st))
         ELSE LET mapping == FindMapping(deviceMappings[1], device.deviceId) IN
              Applied(st, device, existingAccessory, mapping,
                      RegisterTvDevice(st, client, device, existingAccessory, mapping))
    ELSE Applied(st, device, existingAccessory, None, Ignored(st))

\* Variant of ForEach that visits the list from its last element to its first
RECURSIVE ForEach_reversed(_, _, _, _, _)
ForEach_reversed(st, client, devices, deviceMappings, i) ==
    IF i > Len(devices) \/ st.thrown THEN st
    ELSE ForEach_reversed(RegisterDevice(st, client, devices[Len(devices) + 1 - i],
                                         deviceMappings),
                          client, devices, deviceMappings, i + 1)

\* Variant of ForEach that registers one device and leaves the rest of the
\* list to a later tick
RECURSIVE ForEach_oneDevicePerTick(_, _, _, _, _)
ForEach_oneDevicePerTick(st, client, devices, deviceMappings, i) ==
    IF i > Len(devices) \/ st.thrown \/ i > 1 THEN st
    ELSE ForEach_oneDevicePerTick(RegisterDevice(st, client, devices[i], deviceMappings),
                                  client, devices, deviceMappings, i + 1)

\* devices.forEach(device => this.registerDevice(client, device, deviceMappings)),
\* from element i on; an exception thrown by the callback ends the loop.
RECURSIVE ForEach(_, _, _, _, _)
ForEach(st, client, devices, deviceMappings, i) ==
    IF i > Len(devices) \/ st.thrown THEN st
    ELSE ForEach(RegisterDevice(st, client, devices[i], deviceMappings),
                 client, devices, deviceMappings, i + 1)

-----------------------------------------------------------------------------
(* The platform *)

\* The constructor: without a token it returns before subscribing to
\* 'didFinishLaunching'.
Constructor(cfg) == ~Falsy(cfg.token)

Init ==
    /\ config \in [token : TokenConfigs, deviceMappings : MappingConfigs]
    /\ listening = Constructor(config)
    /\ accessories = <<>>
    /\ restoredIds = {}
    /\ restoredInFlight = {}
    /\ account \in DeviceLists
    /\ signals = 0
    /\ clients = 0
    /\ listCalls = 0
    /\ pending = {}
    /\ rejected = {}
    /\ created = [d \in DeviceIds |-> 0]
    /\ handled = None

\* Variant of Pushed that keeps only the accessories delivered before the
\* first startup signal
Pushed_onlyBeforeStartup(accs, accessory) ==
    IF signals = 0 THEN Append(accs, accessory) ELSE accs

\* this.accessories.push(accessory)
Pushed(accs, accessory) == Append(accs, accessory)

\* configureAccessory(accessory): the host hands over one accessory of its
\* cache; the cache holds one accessory per UUID and delivers each once.
ConfigureAccessory(snapshot) ==
    /\ snapshot.deviceId \notin restoredIds
    /\ accessories' = Pushed(accessories,
                             Accessory(snapshot, 0, Cardinality(restoredIds) + 1))
    /\ restoredIds' = restoredIds \cup {snapshot.deviceId}
    /\ restoredInFlight' = IF pending = {} THEN restoredInFlight
                           ELSE restoredInFlight \cup {snapshot.deviceId}
    /\ UNCHANGED <<config, listening, account, signals, clients, listCalls, pending,
                   rejected, created, handled>>

\* Variant of DiscoverDevices that runs for the first startup signal only
DiscoverDevices_once ==
    IF clients = 0
    THEN /\ clients' = clients + 1
         /\ listCalls' = listCalls + 1
         /\ pending' = pending \cup {clients + 1}
    ELSE UNCHANGED <<clients, listCalls, pending>>

\* discoverDevices(token, deviceMappings), up to the suspension on
\* client.devices.list(): a new client and one list call in flight.
DiscoverDevices ==
    /\ clients' = clients + 1
    /\ listCalls' = listCalls + 1
    /\ pending' = pending \cup {clients + 1}

\* The host emits 'didFinishLaunching'; the callback, if subscribed, runs
\* discoverDevices.
DidFinishLaunching ==
    /\ signals < MaxSignals
    /\ signals' = signals + 1
    /\ IF listening THEN DiscoverDevices ELSE UNCHANGED <<clients, listCalls, pending>>
    /\ UNCHANGED <<config, listening, account, accessories, restoredIds, restoredInFlight,
                   rejected, created, handled>>

\* The list promise of client c resolves with the account's devices: the
\* then-callback runs registerDevice on every element, in one tick.
ListResolved(c) ==
    /\ c \in pending
    /\ pending' = pending \ {c}
    /\ LET st0 == [accessories |-> accessories, created |-> created,
                   thrown |-> FALSE, attempts |-> <<>>]
           st == ForEach(st0, c, account, config.deviceMappings, 1)
       IN /\ accessories' = st.accessories
          /\ created' = st.created
          /\ handled' = Some([client |-> c, devices |-> account,
                              attempts |-> st.attempts, thrown |-> st.thrown])
    /\ UNCHANGED <<config, listening, account, restoredIds, restoredInFlight, signals, clients,
                   listCalls, rejected>>

\* What the platform does when the list promise of client c rejects, in a
\* variant that issues the list call again
OnListRejected_retry(c) ==
    /\ listCalls' = listCalls + 1
    /\ UNCHANGED <<pending, clients, accessories, created, handled>>

\* What the platform does when the list promise of client c rejects: the
\* promise has a then-callback for fulfilment only and no catch, so nothing
\* runs; the call is simply no longer in flight.
OnListRejected(c) ==
    /\ pending' = pending \ {c}
    /\ UNCHANGED <<clients, listCalls, accessories, created, handled>>

\* The list promise of client c rejects (network or vendor failure).
ListRejected(c) ==
    /\ c \in pending
    /\ c \notin rejected
    /\ rejected' = rejected \cup {c}
    /\ OnListRejected(c)
    /\ UNCHANGED <<config, listening, account, restoredIds, restoredInFlight, signals>>

Next ==
    \/ \E snapshot \in CachedSnapshots : ConfigureAccessory(snapshot)
    \/ DidFinishLaunching
    \/ \E c \in pending : ListResolved(c)
    \/ \E c \in pending : ListRejected(c)

Spec == Init /\ [][Next]_vars

-----------------------------------------------------------------------------
(* Vocabulary of the properties, written out on the data so that it does    *)
(* not depend on the operators that model the code.                         *)

NoToken == config.token = <<>> \/ config.token = <<"">>

Attempts == IF handled = <<>> THEN <<>> ELSE handled[1].attempts

AttemptSet == { Attempts[i] : i \in 1..Len(Attempts) }

IsTv(d) == d.ocfDeviceType = <<"oic.d.tv">>

HasComponent(d) == d.components # <<>> /\ d.components[1] # <<>>

\* deviceMappings holds no entry for id: not configured, empty, or only others
Unmapped(id) ==
    \/ config.deviceMappings = <<>>
    \/ \A k \in 1..Len(config.deviceMappings[1]) : config.deviceMappings[1][k].deviceId # id

\* Accessories that exist for id: restored from the cache or created and published
AccessoryCount(id) == (IF id \in restoredIds THEN 1 ELSE 0) + created[id]

\* The attempt made nothing: no accessory, no publication, no adapter, and the
\* working set as it was
NothingDone(a) ==
    /\ a.created = <<>>
    /\ a.published = <<>>
    /\ a.adapter = <<>>
    /\ a.after = a.before

-----------------------------------------------------------------------------
(* Properties *)

\* C1: every device identifier has at most one accessory, counting the one
\* restored from the cache and those created and published for it.
C1_AtMostOneAccessory == \A id \in DeviceIds : AccessoryCount(id) <= 1

\* C2: when the registration of D[i] faults, every later device of the list
\* still gets its registration attempt.
C2_FaultIsolation ==
    handled # <<>> =>
        \A i \in 1..Len(Attempts) :
            Attempts[i].outcome = "threw" =>
                \A j \in (i + 1)..Len(handled[1].devices) : j <= Len(Attempts)

\* C3: without a token the platform is inert: it never subscribes to the
\* startup signal, builds no client, issues no list call, handles no list
\* response, and so publishes no accessory and constructs no adapter.
C3_InertWithoutToken ==
    NoToken =>
        /\ ~listening
        /\ clients = 0
        /\ listCalls = 0
        /\ pending = {}
        /\ handled = <<>>
        /\ \A id \in DeviceIds : created[id] = 0

C3_Witness == NoToken /\ signals >= 1 /\ Len(accessories) >= 1

\* C4: a television with a component and no entry in deviceMappings (entries
\* for other devices only, an empty list, or no deviceMappings at all) is
\* registered, its adapter constructed with MAC and IP address absent.
C4_UnmappedProceeds ==
    \A a \in AttemptSet :
        (IsTv(a.device) /\ HasComponent(a.device) /\ Unmapped(a.device.deviceId)) =>
            /\ a.outcome = "registered"
            /\ a.adapter # <<>>
            /\ a.adapter[1].macAddress = <<>>
            /\ a.adapter[1].ipAddress = <<>>

\* C5: a device whose type is not 'oic.d.tv' (or that has no ocf block) is
\* only logged: no accessory, no publication, no adapter, working set and
\* cached accessories untouched.
C5_NonTvIgnored ==
    \A a \in AttemptSet : ~IsTv(a.device) => (a.outcome = "ignored" /\ NothingDone(a))

C5_Witness ==
    /\ \E a \in AttemptSet : a.device.ocfDeviceType = <<>> /\ a.existing # <<>>
                              /\ HasComponent(a.device)
    /\ \E a \in AttemptSet : a.device.ocfDeviceType = <<"oic.d.switch">>

\* C6: a television with no component (components absent or empty) is not
\* registered: no accessory, no publication, no adapter, and a cached
\* accessory with its identifier is left as it was.
C6_NoComponentAborts ==
    \A a \in AttemptSet :
        (IsTv(a.device) /\ ~HasComponent(a.device)) =>
            (a.outcome # "registered" /\ NothingDone(a))

C6_Witness ==
    /\ \E a \in AttemptSet : IsTv(a.device) /\ a.device.components = <<<<>>>>
                              /\ a.existing # <<>> /\ a.outcome = "noComponent"
    /\ \E a \in AttemptSet : IsTv(a.device) /\ a.device.components = <<>>
                              /\ a.outcome = "noComponent"

\* C7: a television (with a component) whose identifier matches a cached
\* accessory of the working set gets no new accessory and no publication, and
\* its adapter is bound to that cached accessory.
C7_IdempotentRestore ==
    \A a \in AttemptSet :
        (IsTv(a.device) /\ HasComponent(a.device) /\ a.existing # <<>>) =>
            /\ a.created = <<>>
            /\ a.published = <<>>
            /\ a.adapter # <<>>
            /\ a.adapter[1].accessory = a.existing[1]

\* C8 as stated: with a token, discovery starts at most once, whatever the
\* number of startup signals.
C8_StartedOnce == ~NoToken => (clients <= 1 /\ listCalls <= 1)

\* C8 as amended: with a token, discovery has started exactly once per
\* startup signal delivered (one client, one list call each), and by
\* nothing else.
C8_StartedOncePerSignal == ~NoToken => (clients = signals /\ listCalls = signals)

C8_Witness == ~NoToken /\ signals = 1 /\ clients = 1 /\ listCalls = 1 /\ handled # <<>>

\* C9: a list response D handled without a fault gets exactly Len(D)
\* registration attempts, the i-th for D[i].
C9_OneAttemptPerDeviceInOrder ==
    (handled # <<>> /\ ~handled[1].thrown) =>
        /\ Len(Attempts) = Len(handled[1].devices)
        /\ \A i \in 1..Len(Attempts) :
              /\ Attempts[i].device = handled[1].devices[i]
              /\ i > 1 => Attempts[i].before = Attempts[i - 1].after

C9_Witness ==
    /\ handled # <<>>
    /\ ~handled[1].thrown
    /\ Len(handled[1].devices) >= 2
    /\ handled[1].devices[1] # handled[1].devices[2]
    /\ \E a \in AttemptSet : a.outcome = "registered"

\* C10: a television with a component and no matching cached accessory gets
\* exactly one new accessory published, keyed by its deviceId and of the
\* television category; if deviceMappings has entries for it, its adapter
\* gets the MAC and IP address of the first of them.
C10_NewTelevisionPublished ==
    \A a \in AttemptSet :
        (IsTv(a.device) /\ HasComponent(a.device) /\ a.existing = <<>>) =>
            /\ Len(a.published) = 1
            /\ a.created = a.published
            /\ a.published[1].UUID = a.device.deviceId
            /\ a.published[1].category = 31
            /\ ~Unmapped(a.device.deviceId) =>
                  LET ms == config.deviceMappings[1]
                      k == CHOOSE n \in 1..Len(ms) :
                              /\ ms[n].deviceId = a.device.deviceId
                              /\ \A m \in 1..(n - 1) : ms[m].deviceId # a.device.deviceId
                  IN /\ a.adapter # <<>>
                     /\ a.adapter[1].macAddress = <<ms[k].macAddress>>
                     /\ a.adapter[1].ipAddress = <<ms[k].ipAddress>>

\* C11: when a device-list call fails, the step makes no registration
\* attempt, publishes nothing, constructs no adapter, leaves the working set
\* as it was and issues no further list call; the failed call's response is
\* never handled, and only a startup signal issues a list call again.
C11_FailedListIsSilent ==
    [][ /\ rejected' # rejected =>
              /\ accessories' = accessories
              /\ created' = created
              /\ handled' = handled
              /\ clients' = clients
              /\ listCalls' = listCalls
              /\ pending' = pending \ (rejected' \ rejected)
        /\ rejected' \cap pending' = {}
        /\ handled' # <<>> => handled'[1].client \notin rejected'
        /\ listCalls' # listCalls => signals' # signals ]_vars

C11_Witness ==
    /\ rejected # {}
    /\ pending = {}
    /\ handled = <<>>
    /\ Len(accessories) >= 1
    /\ config.deviceMappings # <<>>
    /\ \E i \in 1..Len(account) : IsTv(account[i]) /\ HasComponent(account[i])

\* C12: an accessory created by a registration is in the working set from
\* then on, so a later lookup for its identifier finds it.
C12_CreatedJoinsWorkingSet ==
    \A a \in AttemptSet :
        a.created # <<>> =>
            /\ \E i \in 1..Len(a.after) : a.after[i] = a.created[1]
            /\ \E i \in 1..Len(accessories) : accessories[i] = a.created[1]

\* C13: the registration of a television with a component constructs one
\* adapter, for a restored accessory as for a new one, and hands it the
\* accessory matched or just created, the device, the device's first
\* component and the client of the pass.
C13_OneAdapterPerTelevision ==
    \A a \in AttemptSet :
        (IsTv(a.device) /\ HasComponent(a.device)) =>
            /\ Len(a.adapter) = 1
            /\ a.adapter[1].accessory =
                  (IF a.existing # <<>> THEN a.existing[1] ELSE a.created[1])
            /\ a.existing = <<>> => a.created # <<>>
            /\ a.adapter[1].device = a.device
            /\ a.adapter[1].component = a.device.components[1][1]
            /\ a.adapter[1].client = handled[1].client

\* C14: a registration that matches a cached accessory reuses it as it is:
\* the accessory keeps the identifier, the category and the device snapshot
\* the host delivered it with, also when the fetched device differs from the
\* snapshot, and the working set is left unchanged.
C14_CachedReusedAsIs ==
    \A a \in AttemptSet :
        a.existing # <<>> =>
            /\ a.after = a.before
            /\ a.created = <<>>
            /\ \E i \in 1..Len(a.after) : a.after[i] = a.existing[1]
            /\ a.adapter # <<>> => a.adapter[1].accessory = a.existing[1]
            /\ a.existing[1].UUID = a.device.deviceId
            /\ a.existing[1].category = 31
            /\ a.existing[1].context =
                  [deviceId |-> a.device.deviceId, name |-> <<>>,
                   ocfDeviceType |-> <<"oic.d.tv">>, components |-> <<<<"main">>>>]

C14_Witness ==
    \E a \in AttemptSet :
        /\ a.existing # <<>>
        /\ a.outcome = "registered"
        /\ a.device # a.existing[1].context
        /\ a.device.name # <<>>

\* C15: a list response is handled in one step. The step that handles it
\* makes the registration attempts for the whole list (up to a fault), carries
\* the effect of no other event (no restore, no startup signal, no other
\* response), and every cache lookup of the pass reads the working set as it
\* was when the response arrived.
C15_HandledInOneTick ==
    [][ handled' # handled =>
            LET h == handled'[1] IN
            /\ h.client \in pending
            /\ pending' = pending \ {h.client}
            /\ restoredIds' = restoredIds
            /\ signals' = signals
            /\ listCalls' = listCalls
            /\ h.thrown \/ Len(h.attempts) = Len(h.devices)
            /\ \A i \in 1..Len(h.attempts) :
                  /\ h.attempts[i].device = h.devices[i]
                  /\ h.attempts[i].before = accessories
                  /\ h.attempts[i].after = accessories
            /\ accessories' = accessories ]_vars

C15_Witness ==
    /\ handled # <<>>
    /\ Len(Attempts) >= 2
    /\ \A i \in 1..Len(Attempts) : Attempts[i].outcome = "registered"
    /\ \E i \in 1..Len(Attempts) : Attempts[i].existing # <<>>
    /\ \E i \in 1..Len(Attempts) : Attempts[i].created # <<>>
    /\ pending # {}
    /\ restoredIds # DeviceIds

\* C16: the cache lookup reads the working set when the response is handled.
\* A device is matched exactly if the host has delivered a cached accessory
\* with its identifier by then, whether before the startup signal or while
\* the list call was in flight; a matched device gets no new accessory. An
\* accessory delivered later does not change what the pass did.
C16_LookupAtRegistrationTime ==
    [][ /\ handled' # handled =>
              \A i \in 1..Len(handled'[1].attempts) :
                  LET a == handled'[1].attempts[i] IN
                  /\ a.existing # <<>> <=> a.device.deviceId \in restoredIds
                  /\ a.existing # <<>> =>
                        /\ a.existing[1].UUID = a.device.deviceId
                        /\ a.existing[1].inst[1] = 0
                        /\ a.created = <<>>
                        /\ a.published = <<>>
        /\ restoredIds' # restoredIds => (handled' = handled /\ created' = created) ]_vars

C16_Witness ==
    /\ signals = 1
    /\ clients = 1
    /\ handled # <<>>
    /\ \E a \in AttemptSet :
          /\ a.device.deviceId \in restoredInFlight
          /\ a.existing # <<>>
          /\ a.outcome = "registered"
          /\ a.published = <<>>
    /\ \E a \in AttemptSet :
          /\ a.device.deviceId \in restoredIds
          /\ a.existing = <<>>
          /\ a.outcome = "registered"
          /\ Len(a.published) = 1

\* C17: an adapter is constructed only for an accessory whose identifier is
\* the deviceId of a television with a component in the list response being
\* handled; a cached accessory that matches no such device gets no adapter,
\* and every cached accessory delivered stays in the working set.
C17_AdapterOnlyForListedTelevision ==
    /\ \A a \in AttemptSet :
          /\ a.adapter # <<>> =>
                /\ IsTv(a.device)
                /\ HasComponent(a.device)
                /\ a.adapter[1].accessory.UUID = a.device.deviceId
                /\ \E i \in 1..Len(handled[1].devices) : handled[1].devices[i] = a.device
          /\ a.existing # <<>> => \E i \in 1..Len(a.after) : a.after[i] = a.existing[1]
    /\ \A id \in restoredIds :
          \E i \in 1..Len(accessories) :
              accessories[i].UUID = id /\ accessories[i].inst[1] = 0

C17_Witness ==
    /\ \E a \in AttemptSet :
          /\ a.existing # <<>>
          /\ ~(IsTv(a.device) /\ HasComponent(a.device))
          /\ a.adapter = <<>>
    /\ \E a \in AttemptSet : a.adapter # <<>>
    /\ \E id \in restoredIds :
          \A i \in 1..Len(handled[1].devices) : handled[1].devices[i].deviceId # id

====
